---- MODULE Spec2Model ----
(***************************************************************************)
(* Model of ai_models/__main__.py: the command line of ai-models.          *)
(*                                                                         *)
(* One behaviour is one process invocation: main() hands sys.argv[1:] to   *)
(* _main(), which declares the options, parses argv, resolves the          *)
(* configuration and calls run(), which loads the model and drives it.     *)
(* Strings of the program are TLA+ strings; the Python value None is the   *)
(* string None below.  Calls to the Model collaborator are recorded, in    *)
(* order, in the history variable calls.                                   *)
(***************************************************************************)
EXTENDS Integers, Sequences, FiniteSets, TLC

VARIABLES
    sys_argv,        \* sys.argv: program name followed by the arguments
    environ,         \* os.environ entries read at lines 225 and 231
    pc,              \* position of the process in _main()/run()
    args,            \* the argparse Namespace (vars(args) is cfg in run())
    unknownargs,     \* residual tokens of parse_known_args (model_args)
    metadata,        \* args.metadata once it is a dict (lines 260-266)
    calls,           \* collaborator operations invoked so far, in order
    returned,        \* those of them that returned without raising, in order
    stdout,          \* what _main itself printed (the model listing)
    rerun,           \* words of the remediation command logged at 311-314
    provenance_file, \* state of the --dump-provenance file
    raised,          \* exception that ended the process, "none" otherwise
    error_message,   \* message of parser.error, None otherwise
    exit_status      \* process exit status, None while running

vars == <<sys_argv, environ, pc, args, unknownargs, metadata, calls, returned,
          stdout, rerun, provenance_file, raised, error_message, exit_status>>

\* How the process ended, if it has.
ending == <<raised, error_message, exit_status>>

\* Bound on the number of --metadata options of a generated command line.
MaxMeta == 2

None == "<None>"
NoAttr == "<no attribute>"
Prog == "ai-models"

----------------------------------------------------------------------------
(* Python helpers *)

\* bool(v) for v a str or None: None and "" are falsy.
Truthy(v) == v # None /\ v # ""

\* The characters of the strings that the program splits.
Chars(s) ==
    CASE s = "k=v"      -> <<"k", "=", "v">>
      [] s = "k=w"      -> <<"k", "=", "w">>
      [] s = "k="       -> <<"k", "=">>
      [] s = "k"        -> <<"k">>
      [] s = "k=a=b"    -> <<"k", "=", "a", "=", "b">>
      [] s = "expver=1" -> <<"e", "x", "p", "v", "e", "r", "=", "1">>
      [] s = "class=2"  -> <<"c", "l", "a", "s", "s", "=", "2">>
      [] s = "expver"   -> <<"e", "x", "p", "v", "e", "r">>
      [] s = "class"    -> <<"c", "l", "a", "s", "s">>
      [] s = "e"        -> <<"e">>
      [] s = "c"        -> <<"c">>
      [] s = ""         -> <<>>

\* str.split(sep) with no maxsplit: cuts at EVERY occurrence of sep.
RECURSIVE SplitFrom(_, _, _)
SplitFrom(cs, sep, cur) ==
    IF cs = <<>> THEN <<cur>>
    ELSE IF Head(cs) = sep THEN <<cur>> \o SplitFrom(Tail(cs), sep, <<>>)
    ELSE SplitFrom(Tail(cs), sep, Append(cur, Head(cs)))

Split(cs, sep) == SplitFrom(cs, sep, <<>>)

\* dict(pairs): every element must have length 2 (else ValueError); a later
\* pair replaces an earlier one with the same key.
DictOk(pairs) == \A i \in DOMAIN pairs : Len(pairs[i]) = 2

DictKeys(pairs) == {pairs[i][1] : i \in DOMAIN pairs}

LastIndex(pairs, k) ==
    CHOOSE i \in DOMAIN pairs :
        /\ pairs[i][1] = k
        /\ \A j \in DOMAIN pairs : pairs[j][1] = k => j <= i

Dict(pairs) == [k \in DictKeys(pairs) |-> pairs[LastIndex(pairs, k)][2]]

\* d[k] = v
DictSet(d, k, v) == [x \in DOMAIN d \cup {k} |-> IF x = k THEN v ELSE d[x]]

EmptyDict == [k \in {} |-> <<>>]

\* shlex.quote: a word of safe characters is kept, the empty word becomes ''.
\* (Every non-empty token of the modelled command lines is made of safe
\* characters: letters, digits, "-", "=".)
ShlexQuote(w) == IF w = "" THEN "''" ELSE w

\* shlex.join: the quoted words, separated by blanks; kept as the word list.
ShlexJoin(ws) == [i \in DOMAIN ws |-> ShlexQuote(ws[i])]

----------------------------------------------------------------------------
(* The option declarations of _main (lines 27-233) and parse_known_args *)

AvailableModels == {"good", "other"}
AvailableInputs == {"mars", "file"}

StoreTrue == {"--models", "--retrieve-requests", "--assets-list",
              "--download-assets", "--fields", "--only-gpu",
              "--assets-sub-directory", "--no-assets-sub-directory"}

Valued == {"--archive-requests", "--requests-extra", "--dump-provenance",
           "--input", "--path", "--expver", "--class", "--metadata",
           "--remote-url", "--remote-token"}

OptionStrings == StoreTrue \cup Valued

\* The Namespace before any token is consumed: the declared defaults.
Defaults(env, positional) ==
    [models            |-> FALSE,
     retrieve_requests |-> FALSE,
     archive_requests  |-> None,
     requests_extra    |-> None,
     dump_provenance   |-> None,
     input             |-> "mars",
     assets_sub_directory |-> FALSE, \* None and False alike, see line 242
     assets_list       |-> FALSE,
     download_assets   |-> FALSE,
     path              |-> None,
     fields            |-> FALSE,
     expver            |-> None,
     class_            |-> None,
     metadata          |-> <<>>,     \* None and [] alike, see line 257
     only_gpu          |-> FALSE,
     model             |-> IF positional THEN None ELSE NoAttr,
     remote_url        |-> env.AI_MODELS_REMOTE_URL,
     remote_token      |-> env.AI_MODELS_REMOTE_TOKEN]

SetFlag(ns, opt) ==
    CASE opt = "--models"            -> [ns EXCEPT !.models = TRUE]
      [] opt = "--retrieve-requests" -> [ns EXCEPT !.retrieve_requests = TRUE]
      [] opt = "--assets-list"       -> [ns EXCEPT !.assets_list = TRUE]
      [] opt = "--download-assets"   -> [ns EXCEPT !.download_assets = TRUE]
      [] opt = "--fields"            -> [ns EXCEPT !.fields = TRUE]
      [] opt = "--only-gpu"          -> [ns EXCEPT !.only_gpu = TRUE]
      [] opt = "--assets-sub-directory" ->
                                  [ns EXCEPT !.assets_sub_directory = TRUE]
      [] opt = "--no-assets-sub-directory" ->
                                  [ns EXCEPT !.assets_sub_directory = FALSE]

SetValue(ns, opt, v) ==
    CASE opt = "--archive-requests" -> [ns EXCEPT !.archive_requests = v]
      [] opt = "--requests-extra"   -> [ns EXCEPT !.requests_extra = v]
      [] opt = "--dump-provenance"  -> [ns EXCEPT !.dump_provenance = v]
      [] opt = "--input"            -> [ns EXCEPT !.input = v]
      [] opt = "--path"             -> [ns EXCEPT !.path = v]
      [] opt = "--expver"           -> [ns EXCEPT !.expver = v]
      [] opt = "--class"            -> [ns EXCEPT !.class_ = v]
      [] opt = "--metadata"         -> [ns EXCEPT !.metadata = Append(@, v)]
      [] opt = "--remote-url"       -> [ns EXCEPT !.remote_url = v]
      [] opt = "--remote-token"     -> [ns EXCEPT !.remote_token = v]

\* choices= of a valued option
ValueOk(opt, v) == opt = "--input" => v \in AvailableInputs

\* One pass over the tokens.  st.operands collects the positional tokens.
RECURSIVE ParseLoop(_, _)
ParseLoop(toks, st) ==
    IF toks = <<>> \/ st.error THEN st
    ELSE LET t == Head(toks)
             r == Tail(toks)
         IN  IF t = "--"
             THEN [st EXCEPT !.operands = @ \o r]
             ELSE IF t \in StoreTrue
             THEN ParseLoop(r, [st EXCEPT !.ns = SetFlag(@, t)])
             ELSE IF t \in Valued
             THEN IF r = <<>> \/ Head(r) \in OptionStrings \cup {"--"}
                     \/ ~ValueOk(t, Head(r))
                  THEN [st EXCEPT !.error = TRUE]
                  ELSE ParseLoop(Tail(r),
                                 [st EXCEPT !.ns = SetValue(@, t, Head(r))])
             ELSE ParseLoop(r, [st EXCEPT !.operands = Append(@, t)])

\* MODEL is declared whatever argv holds.
ParseKnownArgs_AlwaysModel(argv, env) ==
    LET st == ParseLoop(argv, [ns |-> Defaults(env, TRUE),
                               operands |-> <<>>, error |-> FALSE])
    IN  IF st.error \/ st.operands = <<>>
           \/ Head(st.operands) \notin AvailableModels
        THEN [error |-> TRUE, ns |-> st.ns, extras |-> <<>>]
        ELSE [error |-> FALSE,
              ns |-> [st.ns EXCEPT !.model = Head(st.operands)],
              extras |-> Tail(st.operands)]

\* Lines 215-235: MODEL is declared only when the token "--models" is not
\* in argv; then parse_known_args.  error stands for parser.error (exit 2).
ParseKnownArgs(argv, env) ==
    LET positional == ~(\E i \in DOMAIN argv : argv[i] = "--models")
        st == ParseLoop(argv, [ns |-> Defaults(env, positional),
                               operands |-> <<>>, error |-> FALSE])
    IN  IF st.error THEN [error |-> TRUE, ns |-> st.ns, extras |-> <<>>]
        ELSE IF ~positional
        THEN [error |-> FALSE, ns |-> st.ns, extras |-> st.operands]
        ELSE IF st.operands = <<>> \/ Head(st.operands) \notin AvailableModels
        THEN [error |-> TRUE, ns |-> st.ns, extras |-> <<>>]
        ELSE [error |-> FALSE,
              ns |-> [st.ns EXCEPT !.model = Head(st.operands)],
              extras |-> Tail(st.operands)]

----------------------------------------------------------------------------
(* Command lines *)

Flag(b, opt) == IF b THEN <<opt>> ELSE <<>>
Opt(v, opt) == IF v = None THEN <<>> ELSE <<opt, v>>

RECURSIVE Repeated(_, _)
Repeated(vs, opt) ==
    IF vs = <<>> THEN <<>> ELSE <<opt, Head(vs)>> \o Repeated(Tail(vs), opt)

\* The argument list typed for the choices in raw.
Render(raw) ==
    Flag(raw.models = "flag", "--models")
    \o Flag(raw.fields, "--fields")
    \o Flag(raw.retrieve_requests, "--retrieve-requests")
    \o Flag(raw.assets_list, "--assets-list")
    \o Opt(raw.archive_requests, "--archive-requests")
    \o Opt(raw.requests_extra, "--requests-extra")
    \o Opt(raw.dump_provenance, "--dump-provenance")
    \o Opt(raw.input, "--input")
    \o Opt(raw.path, "--path")
    \o Opt(raw.expver, "--expver")
    \o Opt(raw.class_, "--class")
    \o Repeated(raw.metadata, "--metadata")
    \o Opt(raw.remote_url, "--remote-url")
    \o Opt(raw.remote_token, "--remote-token")
    \o Flag(raw.only_gpu, "--only-gpu")
    \o (IF raw.model = None THEN <<>> ELSE <<raw.model>>)
    \o (IF raw.models = "operand" THEN <<"--", "--models">> ELSE <<>>)

MetaTokens == {"k=v", "k=w", "k", "k=a=b", "expver=1", "class=2"}

RECURSIVE SeqsUpTo(_, _)
SeqsUpTo(S, n) ==
    IF n = 0 THEN {<<>>}
    ELSE LET shorter == SeqsUpTo(S, n - 1)
         IN  shorter \cup {Append(s, x) : s \in shorter, x \in S}

\* Command lines that exercise resolution and dispatch.
DispatchInputs ==
    [models            : {"absent", "flag", "operand"},
     model             : {None, "good", "bad"},
     fields            : BOOLEAN,
     retrieve_requests : BOOLEAN,
     assets_list       : BOOLEAN,
     archive_requests  : {None, "", "f"},
     requests_extra    : {None, "", "x"},
     dump_provenance   : {None, "p"},
     input             : {None},
     path              : {None, "o"},
     expver            : {None},
     class_            : {None},
     metadata          : {<<>>, <<"k">>},
     remote_url        : {None, "u"},
     remote_token      : {None, "t"},
     only_gpu          : {FALSE}]

\* Command lines that exercise the metadata merge.
MetadataInputs ==
    [models            : {"absent", "flag"},
     model             : {"good"},
     fields            : {FALSE},
     retrieve_requests : {FALSE},
     assets_list       : {FALSE},
     archive_requests  : {None},
     requests_extra    : {None},
     dump_provenance   : {None, "", "p"},
     input             : {None, "mars", "bogus"},
     path              : {None},
     expver            : {None, "e", ""},
     class_            : {None, "c"},
     metadata          : SeqsUpTo(MetaTokens, MaxMeta),
     remote_url        : {None},
     remote_token      : {None},
     only_gpu          : BOOLEAN]

Environments ==
    [AI_MODELS_REMOTE_URL : {None, "eu"}, AI_MODELS_REMOTE_TOKEN : {None, "et"}]

NoEnvironment ==
    [AI_MODELS_REMOTE_URL |-> None, AI_MODELS_REMOTE_TOKEN |-> None]

----------------------------------------------------------------------------
(* The process *)

\* argv of _main: main() passes sys.argv[1:] (line 330).
argv == Tail(sys_argv)

Start(raw, env) ==
    /\ sys_argv = <<Prog>> \o Render(raw)
    /\ environ = env
    /\ pc = "main"
    /\ args = Defaults(env, TRUE)
    /\ unknownargs = <<>>
    /\ metadata = EmptyDict
    /\ calls = <<>>
    /\ returned = <<>>
    /\ stdout = <<>>
    /\ rerun = <<>>
    /\ provenance_file = "absent"
    /\ raised = "none"
    /\ error_message = None
    /\ exit_status = None

Init ==
    \/ \E raw \in DispatchInputs, env \in Environments : Start(raw, env)
    \/ \E raw \in MetadataInputs : Start(raw, NoEnvironment)

\* The process ends: sys.exit(status), or an uncaught exception (status 1).
Exit(status, exc, message) ==
    /\ pc' = "exit"
    /\ exit_status' = status
    /\ raised' = exc
    /\ error_message' = message

\* The messages of parser.error: argparse's own, line 271 and line 276.
ParseMessage == "argparse"
RequestsExtraMessage ==
    "You need to specify --retrieve-requests or --archive-requests"
RemoteTokenMessage == "You need to specify --remote-token"

\* Lines 215-235.
Parse ==
    /\ pc = "main"
    /\ LET p == ParseKnownArgs(argv, environ)
       IN  IF p.error
           THEN /\ Exit(2, "UsageError", ParseMessage)
                /\ UNCHANGED <<args, unknownargs>>
           ELSE /\ args' = p.ns
                /\ unknownargs' = p.extras
                /\ pc' = "parsed"
                /\ UNCHANGED ending
    /\ UNCHANGED <<sys_argv, environ, metadata, calls, returned, stdout,
                   rerun, provenance_file>>

\* Lines 237-240: --models lists the model names and exits.
ListModels ==
    /\ pc = "parsed"
    /\ args.models
    /\ stdout' = Append(stdout, "available_models")
    /\ Exit(0, "none", None)
    /\ UNCHANGED <<sys_argv, environ, args, unknownargs, metadata, calls, returned,
                   rerun, provenance_file>>

\* Line 246: the default output path of a model.
DefaultPath(model) == IF model = "good" THEN "good.grib" ELSE "other.grib"

\* Lines 242-255: asset directory and output path (the input kind and the
\* logging set-up touch nothing that is kept here).  Reading args.model
\* raises AttributeError when MODEL was not declared.
ResolvePaths ==
    /\ pc = "parsed"
    /\ ~args.models
    /\ IF args.model = NoAttr
          /\ (args.assets_sub_directory \/ args.path = None)
       THEN /\ Exit(1, "AttributeError", None)
            /\ UNCHANGED args
       ELSE /\ args' = [args EXCEPT
                           !.path = IF @ = None THEN DefaultPath(args.model)
                                                 ELSE @]
            /\ pc' = "metadata"
            /\ UNCHANGED ending
    /\ UNCHANGED <<sys_argv, environ, unknownargs, metadata, calls, returned, stdout,
                   rerun, provenance_file>>

\* Line 260: the pairs handed to dict().
MetadataPairs(tokens) == [i \in DOMAIN tokens |-> Split(Chars(tokens[i]), "=")]

\* The list wins: a dedicated option only fills in a key the list lacks.
Overrides_ListWins(d, expver, class_) ==
    LET d1 == IF expver # None /\ Chars("expver") \notin DOMAIN d
              THEN DictSet(d, Chars("expver"), Chars(expver)) ELSE d
    IN  IF class_ # None /\ Chars("class") \notin DOMAIN d1
        THEN DictSet(d1, Chars("class"), Chars(class_)) ELSE d1

\* Lines 262-266: the dedicated options are written after the list.
Overrides(d, expver, class_) ==
    LET d1 == IF expver # None
              THEN DictSet(d, Chars("expver"), Chars(expver)) ELSE d
    IN  IF class_ # None THEN DictSet(d1, Chars("class"), Chars(class_)) ELSE d1

\* Lines 257-266.
ResolveMetadata ==
    /\ pc = "metadata"
    /\ LET pairs == MetadataPairs(args.metadata)
       IN  IF ~DictOk(pairs)
           THEN /\ Exit(1, "ValueError", None)
                /\ UNCHANGED metadata
           ELSE /\ metadata' = Overrides(Dict(pairs), args.expver, args.class_)
                /\ pc' = "requests_extra"
                /\ UNCHANGED ending
    /\ UNCHANGED <<sys_argv, environ, args, unknownargs, calls, returned, stdout,
                   rerun, provenance_file>>

\* The check forgets --archive-requests.
RequestsExtraError_NoArchive(a) ==
    /\ Truthy(a.requests_extra)
    /\ ~a.retrieve_requests

\* Lines 268-272.
RequestsExtraError(a) ==
    /\ Truthy(a.requests_extra)
    /\ ~a.retrieve_requests
    /\ ~Truthy(a.archive_requests)

CheckRequestsExtra ==
    /\ pc = "requests_extra"
    /\ IF RequestsExtraError(args)
       THEN Exit(2, "UsageError", RequestsExtraMessage)
       ELSE /\ pc' = "remote_token"
            /\ UNCHANGED ending
    /\ UNCHANGED <<sys_argv, environ, args, unknownargs, metadata, calls, returned,
                   stdout, rerun, provenance_file>>

\* The check looks at the wrong side: a token without a URL.
RemoteTokenError_Swapped(a) == a.remote_token # None /\ a.remote_url = None

\* Lines 274-276.
RemoteTokenError(a) == a.remote_url # None /\ a.remote_token = None

CheckRemoteToken ==
    /\ pc = "remote_token"
    /\ IF RemoteTokenError(args)
       THEN Exit(2, "UsageError", RemoteTokenMessage)
       ELSE /\ pc' = "run"
            /\ UNCHANGED ending
    /\ UNCHANGED <<sys_argv, environ, args, unknownargs, metadata, calls, returned,
                   stdout, rerun, provenance_file>>

\* Line 282: cfg["model"] is evaluated before load_model is called.
LoadModel ==
    /\ pc = "run"
    /\ IF args.model = NoAttr
       THEN /\ Exit(1, "KeyError", None)
            /\ UNCHANGED <<calls, returned>>
       ELSE /\ calls' = Append(calls, "load_model")
            /\ returned' = Append(returned, "load_model")
            /\ pc' = "dispatch"
            /\ UNCHANGED ending
    /\ UNCHANGED <<sys_argv, environ, args, unknownargs, metadata, stdout,
                   rerun, provenance_file>>

\* --retrieve-requests takes precedence over --fields.
WantsFields_AfterRequests(cfg) == cfg.fields /\ ~cfg.retrieve_requests

\* The conditions of lines 284, 289-291, 295 and 300.
WantsFields(cfg) == cfg.fields

\* --requests-extra alone selects the mode, archive or not.
WantsRequests_AnyExtra(cfg) ==
    \/ cfg.retrieve_requests
    \/ Truthy(cfg.requests_extra)

WantsRequests(cfg) ==
    \/ cfg.retrieve_requests
    \/ Truthy(cfg.requests_extra) /\ ~Truthy(cfg.archive_requests)

WantsAssetsList(cfg) == cfg.assets_list

WantsRemote(cfg) == cfg.remote_url # None

\* Lines 284-286.
PrintFields ==
    /\ pc = "dispatch"
    /\ WantsFields(args)
    /\ calls' = Append(calls, "print_fields")
    /\ returned' = Append(returned, "print_fields")
    /\ Exit(0, "none", None)
    /\ UNCHANGED <<sys_argv, environ, args, unknownargs, metadata, stdout,
                   rerun, provenance_file>>

\* Lines 289-293.
PrintRequests ==
    /\ pc = "dispatch"
    /\ ~WantsFields(args)
    /\ WantsRequests(args)
    /\ calls' = Append(calls, "print_requests")
    /\ returned' = Append(returned, "print_requests")
    /\ Exit(0, "none", None)
    /\ UNCHANGED <<sys_argv, environ, args, unknownargs, metadata, stdout,
                   rerun, provenance_file>>

\* Lines 295-297.
PrintAssetsList ==
    /\ pc = "dispatch"
    /\ ~WantsFields(args)
    /\ ~WantsRequests(args)
    /\ WantsAssetsList(args)
    /\ calls' = Append(calls, "print_assets_list")
    /\ returned' = Append(returned, "print_assets_list")
    /\ Exit(0, "none", None)
    /\ UNCHANGED <<sys_argv, environ, args, unknownargs, metadata, stdout,
                   rerun, provenance_file>>

\* How a call of model.run() or model.remote() ends.
Outcomes == {"ok", "FileNotFoundError", "Error"}

\* FileNotFoundError is swallowed: the run counts as done.
AfterRun_Swallow(op, outcome) ==
    IF outcome \in {"ok", "FileNotFoundError"}
    THEN /\ returned' = IF outcome = "ok" THEN Append(returned, op)
                                          ELSE returned
         /\ pc' = "finalise"
         /\ UNCHANGED ending
    ELSE /\ Exit(1, "Error", None)
         /\ UNCHANGED returned

\* Lines 299-304: what follows the call op inside the try block.
AfterRun(op, outcome) ==
    IF outcome = "ok"
    THEN /\ returned' = Append(returned, op)
         /\ pc' = "finalise"
         /\ UNCHANGED ending
    ELSE IF outcome = "FileNotFoundError"
    THEN /\ pc' = "missing"
         /\ UNCHANGED <<returned, raised, error_message, exit_status>>
    ELSE /\ Exit(1, "Error", None)
         /\ UNCHANGED returned

\* Lines 300-301.
Remote ==
    /\ pc = "dispatch"
    /\ ~WantsFields(args)
    /\ ~WantsRequests(args)
    /\ ~WantsAssetsList(args)
    /\ WantsRemote(args)
    /\ calls' = Append(calls, "remote")
    /\ \E outcome \in Outcomes : AfterRun("remote", outcome)
    /\ UNCHANGED <<sys_argv, environ, args, unknownargs, metadata, stdout,
                   rerun, provenance_file>>

\* Lines 302-303.
Run ==
    /\ pc = "dispatch"
    /\ ~WantsFields(args)
    /\ ~WantsRequests(args)
    /\ ~WantsAssetsList(args)
    /\ ~WantsRemote(args)
    /\ calls' = Append(calls, "run")
    /\ \E outcome \in Outcomes : AfterRun("run", outcome)
    /\ UNCHANGED <<sys_argv, environ, args, unknownargs, metadata, stdout,
                   rerun, provenance_file>>

\* The flag is appended after the arguments.
RerunCommand_Appended(sysargv) ==
    ShlexJoin(sysargv \o <<"--download-assets">>)

\* Line 313: the words of the command that is logged.
RerunCommand(sysargv) ==
    ShlexJoin(<<Head(sysargv), "--download-assets">> \o Tail(sysargv))

\* Lines 304-315: the handler of FileNotFoundError.
MissingFiles ==
    /\ pc = "missing"
    /\ rerun' = RerunCommand(sys_argv)
    /\ Exit(1, "FileNotFoundError", None)
    /\ UNCHANGED <<sys_argv, environ, args, unknownargs, metadata, calls, returned,
                   stdout, provenance_file>>

\* Line 317; finalise() may itself raise.
Finalise ==
    /\ pc = "finalise"
    /\ calls' = Append(calls, "finalise")
    /\ \E ok \in BOOLEAN :
          IF ok
          THEN /\ returned' = Append(returned, "finalise")
               /\ pc' = "provenance"
               /\ UNCHANGED ending
          ELSE /\ Exit(1, "Error", None)
               /\ UNCHANGED returned
    /\ UNCHANGED <<sys_argv, environ, args, unknownargs, metadata, stdout,
                   rerun, provenance_file>>

\* Lines 319-325 with a provenance path: the file is opened for writing,
\* provenance() is called and, unless it raises, its record is dumped.
DumpProvenance ==
    /\ pc = "provenance"
    /\ Truthy(args.dump_provenance)
    /\ calls' = Append(calls, "provenance")
    /\ \E ok \in BOOLEAN :
          IF ok
          THEN /\ returned' = Append(returned, "provenance")
               /\ provenance_file' = "written"
               /\ Exit(0, "none", None)
          ELSE /\ provenance_file' = "empty"
               /\ Exit(1, "Error", None)
               /\ UNCHANGED returned
    /\ UNCHANGED <<sys_argv, environ, args, unknownargs, metadata, stdout,
                   rerun>>

\* Line 319 without a provenance path: run() and _main() return.
Return ==
    /\ pc = "provenance"
    /\ ~Truthy(args.dump_provenance)
    /\ Exit(0, "none", None)
    /\ UNCHANGED <<sys_argv, environ, args, unknownargs, metadata, calls, returned,
                   stdout, rerun, provenance_file>>

Next ==
    \/ Parse
    \/ ListModels
    \/ ResolvePaths
    \/ ResolveMetadata
    \/ CheckRequestsExtra
    \/ CheckRemoteToken
    \/ LoadModel
    \/ PrintFields
    \/ PrintRequests
    \/ PrintAssetsList
    \/ Remote
    \/ Run
    \/ MissingFiles
    \/ Finalise
    \/ DumpProvenance
    \/ Return

Spec == Init /\ [][Next]_vars

----------------------------------------------------------------------------
(* The invocation, read off the command line itself *)

Arguments == Tail(sys_argv)

\* opt occurs among the arguments.
Given(opt) == \E i \in DOMAIN Arguments : Arguments[i] = opt

\* The values that follow the occurrences of opt, in order.
RECURSIVE ValuesOf(_, _)
ValuesOf(toks, opt) ==
    IF Len(toks) < 2 THEN <<>>
    ELSE IF Head(toks) = opt
    THEN <<toks[2]>> \o ValuesOf(Tail(Tail(toks)), opt)
    ELSE ValuesOf(Tail(toks), opt)

\* The value given for opt (the last one), None when opt is not given.
ArgValue(opt) ==
    LET vs == ValuesOf(Arguments, opt)
    IN  IF vs = <<>> THEN None ELSE vs[Len(vs)]

MetadataList == ValuesOf(Arguments, "--metadata")

\* --models is given as an option, not as an operand after "--".
ModelsOption ==
    \E i \in DOMAIN Arguments :
        /\ Arguments[i] = "--models"
        /\ \A j \in 1..(i - 1) : Arguments[j] # "--"

\* The parser accepts the command line: the values are legal choices and,
\* where MODEL is declared, it is a known model.
Accepted ==
    /\ ArgValue("--input") \in AvailableInputs \cup {None}
    /\ ~Given("--models") =>
           \E i \in DOMAIN Arguments : Arguments[i] \in AvailableModels

ResolvedUrl ==
    IF Given("--remote-url") THEN ArgValue("--remote-url")
    ELSE environ.AI_MODELS_REMOTE_URL

ResolvedToken ==
    IF Given("--remote-token") THEN ArgValue("--remote-token")
    ELSE environ.AI_MODELS_REMOTE_TOKEN

NumberOfEquals(tok) ==
    Cardinality({i \in DOMAIN Chars(tok) : Chars(tok)[i] = "="})

\* Key and value of a KEY=VALUE token, cut at its FIRST "=".
FirstEquals(tok) ==
    CHOOSE i \in DOMAIN Chars(tok) :
        /\ Chars(tok)[i] = "="
        /\ \A j \in 1..(i - 1) : Chars(tok)[j] # "="

KeyOf(tok) == SubSeq(Chars(tok), 1, FirstEquals(tok) - 1)
ValueOf(tok) == SubSeq(Chars(tok), FirstEquals(tok) + 1, Len(Chars(tok)))

MetadataWellFormed == \A i \in DOMAIN MetadataList : NumberOfEquals(MetadataList[i]) = 1

Called(op) == \E i \in DOMAIN calls : calls[i] = op
Returned(op) == \E i \in DOMAIN returned : returned[i] = op
TimesCalled(op) == Cardinality({i \in DOMAIN calls : calls[i] = op})

IsModeOperation(op) ==
    op \in {"print_fields", "print_requests", "print_assets_list", "remote", "run"}

ModeOperations == SelectSeq(calls, IsModeOperation)

----------------------------------------------------------------------------
(* Dispatch *)

\* C1: once a model is loaded at most one of print_fields, print_requests,
\* print_assets_list, remote and run is invoked, and it is the first in that
\* order whose mode is requested: --fields excludes the other four,
\* --retrieve-requests excludes the last three, --assets-list excludes remote
\* and run, a resolved remote URL decides between remote and run; after one
\* of the three print operations neither run, remote nor finalise is invoked.
C1_OneModeByPriority ==
    /\ Len(ModeOperations) <= 1
    /\ ModeOperations # <<>> => Called("load_model")
    /\ Given("--fields") =>
           \A i \in DOMAIN ModeOperations : ModeOperations[i] = "print_fields"
    /\ Given("--retrieve-requests") =>
           \A i \in DOMAIN ModeOperations :
               ModeOperations[i] \in {"print_fields", "print_requests"}
    /\ Given("--assets-list") => ~Called("remote") /\ ~Called("run")
    /\ Called("remote") => ResolvedUrl # None
    /\ Called("run") => ResolvedUrl = None
    /\ (Called("print_fields") \/ Called("print_requests")
            \/ Called("print_assets_list"))
           => ~Called("run") /\ ~Called("remote") /\ ~Called("finalise")

C1_Witness ==
    /\ pc = "exit"
    /\ Given("--fields")
    /\ Given("--retrieve-requests")
    /\ calls = <<"load_model", "print_fields">>
    /\ exit_status = 0

----------------------------------------------------------------------------
(* Missing files *)

IsRunOperation(op) == op \in {"run", "remote"}

\* The word of a command line that ShlexQuote wrote as w.
Unquoted(w) == IF w = "''" THEN "" ELSE w

\* C2: after run() or remote() raised FileNotFoundError the call is not
\* repeated, finalise() and provenance() are not invoked and no provenance
\* file is written; the process ends with status 1 and the logged command is
\* the program name, then --download-assets, then the original arguments in
\* their order.  No other path logs the command.
C2_MissingFilesRemediation ==
    /\ (pc = "missing" \/ raised = "FileNotFoundError") =>
           /\ Len(SelectSeq(calls, IsRunOperation)) = 1
           /\ ~Called("finalise")
           /\ ~Called("provenance")
           /\ provenance_file = "absent"
    /\ raised = "FileNotFoundError" =>
           /\ exit_status = 1
           /\ Len(rerun) = Len(sys_argv) + 1
           /\ Unquoted(rerun[1]) = sys_argv[1]
           /\ rerun[2] = "--download-assets"
           /\ \A i \in DOMAIN Arguments : Unquoted(rerun[i + 2]) = Arguments[i]
    /\ rerun # <<>> => raised = "FileNotFoundError"

C2_Witness ==
    /\ raised = "FileNotFoundError"
    /\ sys_argv = <<Prog, "--only-gpu", "good">>
    /\ rerun = <<Prog, "--download-assets", "--only-gpu", "good">>
    /\ exit_status = 1

----------------------------------------------------------------------------
(* Metadata *)

\* The last token of the list whose key is k.
LastWithKey(k) ==
    MetadataList[CHOOSE i \in DOMAIN MetadataList :
                    /\ KeyOf(MetadataList[i]) = k
                    /\ \A j \in DOMAIN MetadataList :
                           KeyOf(MetadataList[j]) = k => j <= i]

ListKeys == {KeyOf(MetadataList[i]) : i \in DOMAIN MetadataList}

\* The metadata map md follows the precedence of the options.
Precedence(md) ==
    /\ ArgValue("--expver") # None =>
           /\ Chars("expver") \in DOMAIN md
           /\ md[Chars("expver")] = Chars(ArgValue("--expver"))
    /\ ArgValue("--class") # None =>
           /\ Chars("class") \in DOMAIN md
           /\ md[Chars("class")] = Chars(ArgValue("--class"))
    /\ \A k \in ListKeys :
           \/ k = Chars("expver") /\ ArgValue("--expver") # None
           \/ k = Chars("class") /\ ArgValue("--class") # None
           \/ k \in DOMAIN md /\ md[k] = ValueOf(LastWithKey(k))
    /\ \A k \in DOMAIN md :
           \/ k \in ListKeys
           \/ k = Chars("expver") /\ ArgValue("--expver") # None
           \/ k = Chars("class") /\ ArgValue("--class") # None

\* C3: whenever lines 257-266 produce the metadata map, "expver" holds the
\* --expver value if --expver is given and "class" the --class value if
\* --class is given, whatever the --metadata list says for these keys; every
\* other key of the list, and these two when their option is absent, holds
\* the value of its last occurrence in the list.
C3_DedicatedOptionsWin ==
    [][pc = "metadata" /\ pc' = "requests_extra" => Precedence(metadata')]_vars

C3_Witness ==
    /\ pc = "requests_extra"
    /\ MetadataList = <<"expver=1", "class=2">>
    /\ ArgValue("--expver") = "e"
    /\ ArgValue("--class") = None
    /\ metadata[Chars("expver")] = <<"e">>
    /\ metadata[Chars("class")] = <<"2">>

\* C4: a --metadata token without "=" makes the metadata step end the
\* process with a usage error (status 2, as parser.error does), no model
\* having been loaded.
C4_MalformedTokenIsUsageError ==
    [][(/\ pc = "metadata"
        /\ \E i \in DOMAIN MetadataList : NumberOfEquals(MetadataList[i]) = 0)
       => /\ pc' = "exit"
          /\ raised' = "UsageError"
          /\ exit_status' = 2
          /\ ~Called("load_model")]_vars

\* C5: when every --metadata token contains "=", the metadata step succeeds
\* and maps the part of each token before its first "=" to the part after
\* it, so that k=a=b gives key k the value a=b.
C5_SplitOnFirstEquals ==
    [][(/\ pc = "metadata"
        /\ \A i \in DOMAIN MetadataList : NumberOfEquals(MetadataList[i]) >= 1)
       => /\ pc' = "requests_extra"
          /\ Precedence(metadata')]_vars

----------------------------------------------------------------------------
(* Cross-option checks *)

\* --requests-extra has a non-empty value and neither --retrieve-requests
\* nor a non-empty --archive-requests accompanies it.
ExtraAlone ==
    /\ Truthy(ArgValue("--requests-extra"))
    /\ ~Given("--retrieve-requests")
    /\ ~Truthy(ArgValue("--archive-requests"))

\* The process ended during resolution with a usage error or, where a
\* --metadata token of an accepted command line does not contain exactly one
\* "=", with the ValueError of line 260.
EndedInResolution ==
    IF Accepted /\ ~MetadataWellFormed
    THEN raised = "ValueError" /\ exit_status = 1
    ELSE raised = "UsageError" /\ exit_status = 2

----------------------------------------------------------------------------
(* Listing the models *)

\* The listing was printed and the process ended with status 0 before any
\* later step of the resolution ran.
ListedAndLeft ==
    /\ exit_status = 0
    /\ raised = "none"
    /\ error_message = None
    /\ stdout = <<"available_models">>
    /\ calls = <<>>
    /\ metadata = EmptyDict
    /\ args.path = ArgValue("--path")

----------------------------------------------------------------------------
(* Lifecycle *)

IsLifecycleOperation(op) ==
    op \in {"load_model", "run", "remote", "finalise", "provenance"}

IsPrefix(s, t) == Len(s) <= Len(t) /\ \A i \in DOMAIN s : s[i] = t[i]

\* C9: the lifecycle operations are invoked in the order load_model, run or
\* remote, finalise, provenance, each at most once; finalise() is invoked
\* only after run()/remote() returned, and always before the process ends
\* once it has returned; provenance() is invoked, and the provenance file
\* touched, only after finalise() returned and with a --dump-provenance
\* path.
C9_LifecycleOrder ==
    LET life == SelectSeq(calls, IsLifecycleOperation)
    IN  /\ \/ IsPrefix(life, <<"load_model", "run", "finalise", "provenance">>)
           \/ IsPrefix(life, <<"load_model", "remote", "finalise", "provenance">>)
        /\ Called("finalise") => Returned("run") \/ Returned("remote")
        /\ (pc = "exit" /\ (Returned("run") \/ Returned("remote")))
               => TimesCalled("finalise") = 1
        /\ (Called("provenance") \/ provenance_file # "absent") =>
               /\ Returned("finalise")
               /\ Truthy(ArgValue("--dump-provenance"))

C9_Witness ==
    /\ pc = "exit"
    /\ calls = <<"load_model", "run", "finalise", "provenance">>
    /\ returned = calls
    /\ provenance_file = "written"
    /\ exit_status = 0

----------------------------------------------------------------------------
(* Requests *)

\* C10: in an invocation that loaded a model and has --fields unset,
\* print_requests() has been invoked at the end if and only if
\* --retrieve-requests is set; at dispatch the second disjunct of line 289
\* holds only together with the first; with --requests-extra and
\* --archive-requests but not --retrieve-requests, requests are not printed
\* and the process goes on to print_assets_list, remote or run.
C10_PrintRequestsIffRetrieve ==
    (Called("load_model") /\ ~Given("--fields")) =>
        /\ Called("print_requests") => Given("--retrieve-requests")
        /\ (pc = "exit" /\ Given("--retrieve-requests"))
               => Called("print_requests")
        /\ (Truthy(args.requests_extra) /\ ~Truthy(args.archive_requests))
               => args.retrieve_requests
        /\ (/\ pc = "exit"
            /\ Given("--requests-extra")
            /\ Given("--archive-requests")
            /\ ~Given("--retrieve-requests"))
           => /\ ~Called("print_requests")
              /\ \/ Called("print_assets_list")
                 \/ Called("remote")
                 \/ Called("run")

C10_Witness ==
    /\ pc = "exit"
    /\ ArgValue("--requests-extra") = "x"
    /\ ArgValue("--archive-requests") = "f"
    /\ ~Given("--retrieve-requests")
    /\ ~Given("--fields")
    /\ ~Called("print_requests")
    /\ Called("run")

====
